---------------------------- MODULE Spec2Model ----------------------------
(***************************************************************************)
(* Train-seat reservation API (src/routes.py): the Flask handlers          *)
(* register, add_train, get_availability, book_seat and get_booking over   *)
(* the User, Train and Booking tables.                                     *)
(*                                                                         *)
(* Requests are served concurrently by the workers of Procs.  Every        *)
(* request has its own ORM session, so what a handler has read (the Train  *)
(* object it loaded) is local to the worker, and the tables hold committed *)
(* rows only.  book_seat issues two queries and one commit; each of them   *)
(* is one step, and other workers' steps may fall in between.  The other   *)
(* handlers report values of a single query and are one step each.         *)
(***************************************************************************)
EXTENDS Integers, Sequences, FiniteSets, TLC

(* ----------------------------- bounds ---------------------------------- *)
MaxUsers == 2
MaxTrains == 2
MaxSeats == 2
MaxBookings == 2

\* the workers that serve /book requests concurrently
Procs == {"w1", "w2"}

\* request payloads.  Trains are created with a capacity of MaxSeats, so that a
\* request can ask for all of it, part of it or (after a booking) too much.

Mail(local) == <<local, "@", "x", ".", "i", "o">>
EmailInputs == {Mail("a"), Mail("b"), <<"b", "a", "d">>}
RoleInputs == {"user", "admin"}
\* the n-th train the admin adds: Tn, running A to B when n is odd, B to A when even
TrainInputs(n) ==
    {[name |-> <<"T", n>>,
      source |-> IF n % 2 = 1 THEN "A" ELSE "B",
      destination |-> IF n % 2 = 1 THEN "B" ELSE "A"]}
StationInputs == {"", "A", "B"}
CapInputs == {MaxSeats}
PositiveSeatInputs == 1..MaxSeats
SeatInputs == {0 - 1, 0} \cup PositiveSeatInputs
UserIdInputs == 1..MaxUsers
TrainIdInputs == 1..MaxTrains
BookingIdInputs == 1..(MaxBookings + 1)

(* ----------------------------- state ----------------------------------- *)
VARIABLES
    users,      \* User table: row i has id i
    trains,     \* Train table: row i has id i
    bookings,   \* Booking table: row i has id i
    created,    \* history: created[i] is the total_seats train i was created with
    creator,    \* history: creator[i] is the user whose token created train i
    pc,         \* per worker: where its book_seat request stands
    loc,        \* per worker: the request and the locals of book_seat, and the
                \* history field n0, the number of Bookings when it loaded its train
    last,       \* the most recent response: handler, status, message, data
    reg         \* per worker: the User a /register request taken step by step has
                \* built and not yet committed

vars == <<users, trains, bookings, created, creator, pc, loc, last, reg>>

NoLoc == [user_id |-> 0, train_id |-> 0, seats |-> 0, total_seats |-> 0, n0 |-> 0]
NoReg == [email |-> <<>>, role |-> ""]
NoResp == [op |-> "none", status |-> 0, msg |-> "", body |-> <<>>]

\* jsonify(...), status: the JSON body is its msg or its data
Resp(op, status, msg, body) ==
    [op |-> op, status |-> status, msg |-> msg, body |-> body]

Init ==
    /\ users = <<>>
    /\ trains = <<>>
    /\ bookings = <<>>
    /\ created = <<>>
    /\ creator = <<>>
    /\ pc = [p \in Procs |-> "idle"]
    /\ loc = [p \in Procs |-> NoLoc]
    /\ last = NoResp
    /\ reg = [p \in Procs |-> NoReg]

(* ----------------------------- helpers --------------------------------- *)
WordChars == {"a", "b", "d", "i", "o", "x", "_", "0"}
NameChars == WordChars \cup {".", "-"}

\* re.match(r'^[\w\.-]+@[\w\.-]+\.\w{2,}$', email)
is_valid_email(email) ==
    \E i \in 2..Len(email), j \in 4..Len(email) :
        /\ i + 1 < j
        /\ email[i] = "@"
        /\ email[j] = "."
        /\ \A k \in 1..(i - 1) : email[k] \in NameChars
        /\ \A k \in (i + 1)..(j - 1) : email[k] \in NameChars
        /\ Len(email) - j >= 2
        /\ \A k \in (j + 1)..Len(email) : email[k] \in WordChars

RECURSIVE SumSeats(_, _, _)
\* sum of seats_booked over the rows 1..n of bs whose train_id is t
SumSeats(bs, t, n) ==
    IF n = 0 THEN 0
    ELSE SumSeats(bs, t, n - 1)
         + (IF bs[n].train_id = t THEN bs[n].seats_booked ELSE 0)

\* mutant: the sum taken without the train_id filter
RECURSIVE SumAllSeats(_, _)
SumAllSeats(bs, n) == IF n = 0 THEN 0 ELSE SumAllSeats(bs, n - 1) + bs[n].seats_booked

booked_seats_of_all_trains(t) == SumAllSeats(bookings, Len(bookings))

\* db.session.query(db.func.sum(Booking.seats_booked)).filter_by(train_id=t).scalar() or 0
booked_seats(t) == SumSeats(bookings, t, Len(bookings))

InFlight == {p \in Procs : pc[p] # "idle"}


(* ------------------------- register, add_train ------------------------- *)
\* mutant: the lookup of the email is missing
no_existing_user(email) == FALSE

\* User.query.filter_by(email=email).first()
existing_user(email) == \E i \in 1..Len(users) : users[i].email = email

\* POST /register, taken as one step: no other registration comes between its
\* lookup and its commit.  commit_ok: whether db.session.commit() goes through.
Register(email, role, commit_ok) ==
    /\ UNCHANGED reg
    /\ UNCHANGED <<trains, bookings, created, creator, pc, loc>>
    /\ IF ~is_valid_email(email)
       THEN /\ last' = Resp("register", 400, "Invalid email format.", <<>>)
            /\ UNCHANGED users
       ELSE IF existing_user(email)
       THEN /\ last' = Resp("register", 400, "Email already registered.", <<>>)
            /\ UNCHANGED users
       ELSE /\ Len(users) < MaxUsers
            /\ IF commit_ok
               THEN /\ users' = Append(users, [email |-> email, role |-> role])
                    /\ last' = Resp("register", 201, "User created successfully", <<>>)
               ELSE /\ UNCHANGED users
                    /\ last' = Resp("register", 500, "error", <<>>)

(* /register step by step: the lookup, then the commit, with other *)
(* registrations in between.                                        *)
\* the User table's unique constraint on email: the INSERT of a second row with
\* an email already in the table is rejected
email_is_unique(email) == \A i \in 1..Len(users) : users[i].email # email

Registering == {p \in Procs : reg[p] # NoReg}

\* lines 36-50: validate, look the email up, build the User
RegisterCheck(p, email, role) ==
    /\ reg[p] = NoReg
    /\ p = "w2" => reg["w1"] # NoReg
    /\ UNCHANGED <<users, trains, bookings, created, creator, pc, loc>>
    /\ IF ~is_valid_email(email)
       THEN /\ last' = Resp("register", 400, "Invalid email format.", <<>>)
            /\ UNCHANGED reg
       ELSE IF existing_user(email)
       THEN /\ last' = Resp("register", 400, "Email already registered.", <<>>)
            /\ UNCHANGED reg
       ELSE /\ Len(users) + Cardinality(Registering) < MaxUsers
            /\ reg' = [reg EXCEPT ![p] = [email |-> email, role |-> role]]
            /\ UNCHANGED last

\* lines 51-56: add and commit, or the except branch
RegisterCommit(p, commit_ok) ==
    /\ reg[p] # NoReg
    /\ UNCHANGED <<trains, bookings, created, creator, pc, loc>>
    /\ reg' = [reg EXCEPT ![p] = NoReg]
    /\ IF commit_ok /\ email_is_unique(reg[p].email)
       THEN /\ users' = Append(users, reg[p])
            /\ last' = Resp("register", 201, "User created successfully", <<>>)
       ELSE /\ UNCHANGED users
            /\ last' = Resp("register", 500, "error", <<>>)

\* mutant: any user with a token passes, whatever the role
is_any_user(user_id) == user_id \in 1..Len(users)

\* admin_required: user = User.query.get(current_user_id); user and user.role == 'admin'
is_admin(user_id) == user_id \in 1..Len(users) /\ users[user_id].role = "admin"

\* POST /train, called with the token of user_id.
AddTrain(user_id, t, total_seats, commit_ok) ==
    /\ UNCHANGED reg
    /\ user_id \in 1..Len(users)
    /\ UNCHANGED <<users, bookings, pc, loc>>
    /\ IF ~is_admin(user_id)
       THEN /\ last' = Resp("add_train", 403, "Admin access required", <<>>)
            /\ UNCHANGED <<trains, created, creator>>
       ELSE /\ Len(trains) < MaxTrains
            /\ IF commit_ok
               THEN /\ trains' = Append(trains,
                          [name |-> t.name, source |-> t.source,
                           destination |-> t.destination, total_seats |-> total_seats])
                    /\ created' = Append(created, total_seats)
                    /\ creator' = Append(creator, user_id)
                    /\ last' = Resp("add_train", 201, "Train added successfully", <<>>)
               ELSE /\ UNCHANGED <<trains, created, creator>>
                    /\ last' = Resp("add_train", 500, "error", <<>>)

(* --------------------------- get_availability -------------------------- *)
\* "available_seats": train.total_seats
reported_seats(train) == train.total_seats

RECURSIVE availability_rows(_, _, _)
\* the result list over Train.query.filter_by(source, destination).all(), rows 1..n
availability_rows(n, source, destination) ==
    IF n = 0 THEN <<>>
    ELSE IF trains[n].source = source /\ trains[n].destination = destination
    THEN Append(availability_rows(n - 1, source, destination),
                [id |-> n, name |-> trains[n].name,
                 available_seats |-> reported_seats(trains[n]),
                 source |-> trains[n].source, destination |-> trains[n].destination])
    ELSE availability_rows(n - 1, source, destination)

get_availability(source, destination) ==
    LET rows == availability_rows(Len(trains), source, destination)
    IN  IF source = "" \/ destination = ""
        THEN Resp("get_availability", 400, "Source and destination are required.", <<>>)
        ELSE IF rows = <<>>
        THEN Resp("get_availability", 404,
                  "No trains found for the given source and destination.", <<>>)
        ELSE Resp("get_availability", 200, "", rows)

\* mutant: the handler stores the figure it derives and commits
GetAvailabilityStoring(source, destination) ==
    /\ UNCHANGED reg
    /\ last' = get_availability(source, destination)
    /\ trains' = [t \in 1..Len(trains) |->
                     [trains[t] EXCEPT !.total_seats = @ - booked_seats(t)]]
    /\ UNCHANGED <<users, bookings, created, creator, pc, loc>>

\* POST /availability
GetAvailability(source, destination) ==
    /\ UNCHANGED reg
    /\ last' = get_availability(source, destination)
    /\ UNCHANGED <<users, trains, bookings, created, creator, pc, loc>>

(* ------------------------------ get_booking ---------------------------- *)
\* mutant: the lookup by id alone, without the owner
booking_found_by_id(booking_id, user_id) == booking_id \in 1..Len(bookings)

\* Booking.query.filter_by(id=booking_id, user_id=user_id).first()
booking_found(booking_id, user_id) ==
    /\ booking_id \in 1..Len(bookings)
    /\ bookings[booking_id].user_id = user_id

\* mutant: the Train read is the first one, not the Booking's
get_booking_of_first_train(booking_id, user_id) ==
    IF ~booking_found(booking_id, user_id)
    THEN Resp("get_booking", 404, "Booking not found", <<>>)
    ELSE LET booking == bookings[booking_id]
             train == trains[1]
         IN  Resp("get_booking", 200, "",
                  [booking_id |-> booking_id, train_name |-> train.name,
                   seats_booked |-> booking.seats_booked,
                   source |-> train.source, destination |-> train.destination])

get_booking(booking_id, user_id) ==
    IF ~booking_found(booking_id, user_id)
    THEN Resp("get_booking", 404, "Booking not found", <<>>)
    ELSE LET booking == bookings[booking_id]
             train == trains[booking.train_id]
         IN  Resp("get_booking", 200, "",
                  [booking_id |-> booking_id, train_name |-> train.name,
                   seats_booked |-> booking.seats_booked,
                   source |-> train.source, destination |-> train.destination])

\* GET /booking/<id>, called with the token of user_id.
GetBooking(booking_id, user_id) ==
    /\ UNCHANGED reg
    /\ user_id \in 1..Len(users)
    /\ last' = get_booking(booking_id, user_id)
    /\ UNCHANGED <<users, trains, bookings, created, creator, pc, loc>>

(* ------------------------------- book_seat ----------------------------- *)
\* available_seats = train.total_seats - booked_seats
available_seats(total_seats, booked) == total_seats - booked

\* mutant: the comparison the wrong way round
not_enough_reversed(available, seats) == available > seats

\* if available_seats < data['seats']
not_enough(available, seats) == available < seats

\* mutant: every booking takes one seat off the train, whatever it asked for
decremented_by_one(total_seats, seats) == total_seats - 1

\* train.total_seats -= data['seats'], on the Train object this request loaded
decremented(total_seats, seats) == total_seats - seats

\* Booking(user_id=user_id, train_id=data['train_id'], seats_booked=data['seats'])
new_booking(user_id, train_id, seats) ==
    [user_id |-> user_id, train_id |-> train_id, seats_booked |-> seats]

\* mutant: a second booking of the same user on the same train is merged into
\* the first instead of being added
commit_bookings_merging(l) ==
    IF \E i \in 1..Len(bookings) :
           bookings[i].user_id = l.user_id /\ bookings[i].train_id = l.train_id
    THEN [i \in 1..Len(bookings) |->
             IF bookings[i].user_id = l.user_id /\ bookings[i].train_id = l.train_id
             THEN [bookings[i] EXCEPT !.seats_booked = @ + l.seats]
             ELSE bookings[i]]
    ELSE Append(bookings, new_booking(l.user_id, l.train_id, l.seats))

\* the rows the commit writes: the INSERT of the Booking ...
commit_bookings(l) == Append(bookings, new_booking(l.user_id, l.train_id, l.seats))

\* ... and the UPDATE of the loaded Train row with the value computed in memory
commit_trains(l) ==
    [trains EXCEPT ![l.train_id].total_seats = decremented(l.total_seats, l.seats)]

\* mutant: the INSERT stays although the commit failed
flushed_bookings(l) == commit_bookings(l)

\* except Exception: the commit did not go through and the request's session is
\* discarded with the rows it held, so the table is as it was
uncommitted_bookings(l) == bookings

\* A request goes to the first free worker: w2 serves one only while w1 is busy.
Dispatched(p) == pc[p] = "idle" /\ (p = "w2" => pc["w1"] # "idle")

\* mutant: the "if not train" test is missing, and a call for a train that does
\* not exist goes on with an empty Train
BookLoadUnchecked(p, user_id, train_id, seats) ==
    /\ UNCHANGED reg
    /\ Dispatched(p)
    /\ user_id \in 1..Len(users)
    /\ Len(bookings) + Cardinality(InFlight) < MaxBookings
    /\ UNCHANGED <<users, trains, bookings, created, creator, last>>
    /\ loc' = [loc EXCEPT ![p] =
                  [user_id |-> user_id, train_id |-> train_id, seats |-> seats,
                   total_seats |-> IF train_id \in 1..Len(trains)
                                   THEN trains[train_id].total_seats ELSE 0,
                   n0 |-> Len(bookings)]]
    /\ pc' = [pc EXCEPT ![p] = "check"]

\* POST /book, called with the token of user_id: train = Train.query.get(train_id)
BookLoad(p, user_id, train_id, seats) ==
    /\ UNCHANGED reg
    /\ Dispatched(p)
    /\ user_id \in 1..Len(users)
    /\ Len(bookings) + Cardinality(InFlight) < MaxBookings
    /\ UNCHANGED <<users, trains, bookings, created, creator>>
    /\ IF train_id \notin 1..Len(trains)
       THEN /\ last' = Resp("book_seat", 404, "Train not found", 0)
            /\ UNCHANGED <<pc, loc>>
       ELSE /\ loc' = [loc EXCEPT ![p] =
                          [user_id |-> user_id, train_id |-> train_id, seats |-> seats,
                           total_seats |-> trains[train_id].total_seats,
                           n0 |-> Len(bookings)]]
            /\ pc' = [pc EXCEPT ![p] = "check"]
            /\ UNCHANGED last

\* the sum query and the availability test
BookCheck(p) ==
    /\ UNCHANGED reg
    /\ pc[p] = "check"
    /\ UNCHANGED <<users, trains, bookings, created, creator>>
    /\ LET l == loc[p]
           available == available_seats(l.total_seats, booked_seats(l.train_id))
       IN  IF not_enough(available, l.seats)
           THEN /\ last' = Resp("book_seat", 400, "Not enough seats available", 0)
                /\ pc' = [pc EXCEPT ![p] = "idle"]
                /\ loc' = [loc EXCEPT ![p] = NoLoc]
           ELSE /\ pc' = [pc EXCEPT ![p] = "commit"]
                /\ UNCHANGED <<loc, last>>

\* the try block: add the Booking, decrement the loaded Train, commit
BookCommit(p, commit_ok) ==
    /\ UNCHANGED reg
    /\ pc[p] = "commit"
    /\ UNCHANGED <<users, created, creator>>
    /\ pc' = [pc EXCEPT ![p] = "idle"]
    /\ loc' = [loc EXCEPT ![p] = NoLoc]
    /\ IF commit_ok
       THEN /\ bookings' = commit_bookings(loc[p])
            /\ trains' = commit_trains(loc[p])
            /\ last' = Resp("book_seat", 201, "Booking successful", Len(bookings) + 1)
       ELSE /\ bookings' = uncommitted_bookings(loc[p])
            /\ UNCHANGED trains
            /\ last' = Resp("book_seat", 500, "error", 0)

(* --------------------------- specification ----------------------------- *)
\* the next-state relation with the seat counts of /book drawn from seat_inputs
NextOn(seat_inputs) ==
    \/ \E e \in EmailInputs, r \in RoleInputs, ok \in BOOLEAN : Register(e, r, ok)
    \/ \E u \in UserIdInputs, t \in TrainInputs(Len(trains) + 1), c \in CapInputs,
          ok \in BOOLEAN : AddTrain(u, t, c, ok)
    \/ \E s \in StationInputs, d \in StationInputs : GetAvailability(s, d)
    \/ \E b \in BookingIdInputs, u \in UserIdInputs : GetBooking(b, u)
    \/ \E p \in Procs, u \in UserIdInputs, t \in TrainIdInputs, n \in seat_inputs :
           BookLoad(p, u, t, n)
    \/ \E p \in Procs : BookCheck(p)
    \/ \E p \in Procs, ok \in BOOLEAN : BookCommit(p, ok)

Next == NextOn(SeatInputs)

\* every request the API accepts
Spec == Init /\ [][Next]_vars

\* registrations only, each taken step by step
NextRegistration ==
    \/ \E p \in Procs, e \in EmailInputs, r \in RoleInputs : RegisterCheck(p, e, r)
    \/ \E p \in Procs, ok \in BOOLEAN : RegisterCommit(p, ok)

SpecRegistration == Init /\ [][NextRegistration]_vars

NextPositive == NextOn(PositiveSeatInputs)

\* the same, with every /book request asking for a positive number of seats
SpecPositive == Init /\ [][NextPositive]_vars

\* positive seat counts, and one /book call at a time: only w1 serves /book, so
\* a call loads its train only after the one before it has finished
NextSequential ==
    \/ \E e \in EmailInputs, r \in RoleInputs, ok \in BOOLEAN : Register(e, r, ok)
    \/ \E u \in UserIdInputs, t \in TrainInputs(Len(trains) + 1), c \in CapInputs,
          ok \in BOOLEAN : AddTrain(u, t, c, ok)
    \/ \E s \in StationInputs, d \in StationInputs : GetAvailability(s, d)
    \/ \E b \in BookingIdInputs, u \in UserIdInputs : GetBooking(b, u)
    \/ \E u \in UserIdInputs, t \in TrainIdInputs, n \in PositiveSeatInputs :
           BookLoad("w1", u, t, n)
    \/ BookCheck("w1")
    \/ \E ok \in BOOLEAN : BookCommit("w1", ok)

SpecSequential == Init /\ [][NextSequential]_vars

(* ------------------------------- claims -------------------------------- *)
TrainIds == 1..Len(trains)

\* sum of seats_booked over the Bookings of train t
SumBooked(t) == SumSeats(bookings, t, Len(bookings))

\* seats remaining on train t: the capacity it was created with minus its bookings
Remaining(t) == created[t] - SumBooked(t)

\* worker p's call ends in this step
Finishes(p) == pc[p] # "idle" /\ pc'[p] = "idle"

\* a Booking of p's train was committed after p loaded the train
RivalsOf(p) ==
    {i \in (loc[p].n0 + 1)..Len(bookings) : bookings[i].train_id = loc[p].train_id}

\* C1: for every train, the sum of seats_booked over its Bookings is at most the
\* capacity the train was created with, in every reachable state.
C1_BookedWithinCapacity == \A t \in TrainIds : SumBooked(t) <= created[t]

\* C2: of two concurrent Book calls on one train, each asking for seats that were
\* available when it began but together for more than that, the one that commits
\* second does not succeed.
C2_NeverBothSucceed ==
    [][\A p \in Procs :
          LET l == loc[p]
              avail0 == created[l.train_id] - SumSeats(bookings, l.train_id, l.n0)
          IN  ( /\ pc[p] = "commit"
                /\ Finishes(p)
                /\ l.seats <= avail0
                /\ \E i \in RivalsOf(p) :
                      /\ bookings[i].seats_booked <= avail0
                      /\ bookings[i].seats_booked + l.seats > avail0 )
              => last'.status # 201]_vars

\* C3: a Book call for a positive number of seats that runs alone (no other call in
\* flight, nothing committed since it began) is refused as "not enough seats"
\* exactly when it asks for more than the capacity the train was created with
\* minus the seats already booked.
C3_RefusedIffOverRemaining ==
    [][\A p \in Procs :
          ( /\ pc[p] = "check"
            /\ pc'[p] # "check"
            /\ \A q \in Procs \ {p} : pc[q] = "idle"
            /\ Len(bookings) = loc[p].n0
            /\ loc[p].seats > 0 )
          => ( (pc'[p] = "idle" /\ last'.status = 400)
               <=> loc[p].seats > Remaining(loc[p].train_id) )]_vars

\* C4: no Booking record holds a zero or negative number of seats (a Book call
\* asking for such a number is rejected and creates nothing).
C4_NoNonPositiveBooking ==
    \A i \in 1..Len(bookings) : bookings[i].seats_booked > 0

\* C5: whatever route is asked for, the available_seats that GetAvailability
\* reports for a train is the capacity it was created with minus the sum of
\* seats_booked over its Bookings.
C5_ReportedIsRemaining ==
    \A s \in StationInputs, d \in StationInputs :
        LET r == get_availability(s, d)
        IN  r.status = 200 =>
                \A k \in 1..Len(r.body) :
                    r.body[k].available_seats = Remaining(r.body[k].id)

\* a step in which a Book call ends in an error
BookFails ==
    /\ last'.op = "book_seat"
    /\ last'.status \in {400, 404, 500}
    /\ last' # last \/ \E p \in Procs : Finishes(p)

\* C6: a Book call that ends in an error (train not found, not enough seats, a
\* failed commit) leaves the Bookings and every train's seat count as they were,
\* and nothing of the call stays behind in its worker.
C6_FailedBookChangesNothing ==
    [][BookFails =>
          /\ bookings' = bookings
          /\ trains' = trains
          /\ \A p \in Procs : Finishes(p) => loc'[p] = NoLoc]_vars

C6_Witness ==
    /\ last.op = "book_seat"
    /\ last.status = 500
    /\ Len(bookings) = 1
    /\ trains[1].total_seats < created[1]

\* C7: with positive seat counts requested, the stored seat count of a train is
\* never negative, whatever the interleaving of the Book calls.
C7_SeatCountNotNegative == \A t \in TrainIds : trains[t].total_seats >= 0

\* two overlapping calls both committed: the train is overbooked, its count is 0
C7_Witness ==
    \E t \in TrainIds : trains[t].total_seats = 0 /\ SumBooked(t) > created[t]

\* C8: the stored total_seats of a train stays the value it was created with.
C8_CapacityFixed == \A t \in TrainIds : trains[t].total_seats = created[t]

\* C9: GetBooking of a booking another user owns answers 404, and the answer is
\* the one given for a booking id that does not exist.
C9_OthersBookingLooksAbsent ==
    \A b \in 1..Len(bookings), u \in 1..Len(users) :
        bookings[b].user_id # u =>
            /\ get_booking(b, u).status = 404
            /\ get_booking(b, u) = get_booking(Len(bookings) + 1, u)

C9_Witness ==
    /\ last.op = "get_booking"
    /\ last.status = 404
    /\ \E b \in 1..Len(bookings), u \in 1..Len(users) :
          bookings[b].user_id # u /\ last = get_booking(b, u)

\* the Bookings of train t, in order
RECURSIVE BookingsOf(_, _, _)
BookingsOf(bs, t, n) ==
    IF n = 0 THEN <<>>
    ELSE IF bs[n].train_id = t
    THEN Append(BookingsOf(bs, t, n - 1), bs[n])
    ELSE BookingsOf(bs, t, n - 1)

\* C10: a step that is not the commit of a Book on train t leaves t's seat count
\* and Bookings unchanged; and a Book call during which nothing was committed on
\* its own train sees, decides and writes what it would if it ran alone, whatever
\* was committed on other trains meanwhile.
C10_OtherTrainsDoNotInterfere ==
    [][/\ \A t \in TrainIds :
             (~\E p \in Procs : pc[p] = "commit" /\ Finishes(p) /\ loc[p].train_id = t)
             => /\ trains'[t] = trains[t]
                /\ BookingsOf(bookings', t, Len(bookings')) = BookingsOf(bookings, t, Len(bookings))
       /\ \A p \in Procs :
             (pc[p] # "idle" /\ RivalsOf(p) = {}) =>
                LET l == loc[p]
                    t == l.train_id
                    alone == l.total_seats - SumSeats(bookings, t, l.n0) < l.seats
                IN  /\ l.total_seats = trains[t].total_seats
                    /\ pc[p] = "check" => (pc'[p] # "check" => (pc'[p] = "idle" <=> alone))
                    /\ (pc[p] = "commit" /\ last'.status = 201 /\ Finishes(p)) =>
                          /\ trains'[t].total_seats = trains[t].total_seats - l.seats
                          /\ \A o \in TrainIds \ {t} : trains'[o] = trains[o]]_vars

\* a call that passed its check while a Booking on another train was committed
C10_Witness ==
    \E p \in Procs :
        /\ pc[p] = "commit"
        /\ Len(bookings) > loc[p].n0
        /\ RivalsOf(p) = {}

\* C11: a GetAvailability call, whatever it answers (200, 400, 404) and whatever
\* Book calls are under way, leaves the User, Train and Booking tables and the
\* calls under way as they were.
C11_AvailabilityOnlyReads ==
    [][(last'.op = "get_availability" /\ last' # last)
          => UNCHANGED <<users, trains, bookings, pc, loc>>]_vars

\* an availability answer given between the check and the commit of a Book
C11_Witness ==
    /\ last.op = "get_availability"
    /\ last.status = 200
    /\ \E p \in Procs : pc[p] = "commit"

\* C12: every Booking keeps its place and its user_id, train_id and seats_booked
\* in every later state, and every Train stays in the table.
C12_BookingsAndTrainsStay ==
    [][/\ Len(bookings') >= Len(bookings)
       /\ \A i \in 1..Len(bookings) : bookings'[i] = bookings[i]
       /\ Len(trains') >= Len(trains)
       /\ \A t \in 1..Len(trains) :
             /\ trains'[t].name = trains[t].name
             /\ trains'[t].source = trains[t].source
             /\ trains'[t].destination = trains[t].destination]_vars

\* a second Booking was committed after the first
C12_Witness ==
    /\ Len(bookings) = 2
    /\ last.op = "book_seat"
    /\ last.status = 201

\* C13: a /train call answered 403 inserts no Train; and a Train is inserted only
\* by a call made with the token of a user whose stored role is admin at that
\* time, one row per call, holding the total_seats given and having no Bookings.
C13_OnlyAdminsCreateTrains ==
    [][/\ (last'.op = "add_train" /\ last'.status = 403 /\ last' # last)
             => trains' = trains
       /\ Len(trains') > Len(trains) =>
             LET n == Len(trains')
             IN  /\ n = Len(trains) + 1
                 /\ creator'[n] \in 1..Len(users)
                 /\ users[creator'[n]].role = "admin"
                 /\ trains'[n].total_seats = created'[n]
                 /\ SumSeats(bookings', n, Len(bookings')) = 0
                 /\ last' = Resp("add_train", 201, "Train added successfully", <<>>)]_vars

\* a user who is not admin was refused while a Train made by an admin exists
C13_Witness ==
    /\ last.op = "add_train"
    /\ last.status = 403
    /\ Len(trains) >= 1
    /\ \E u \in 1..Len(users) : users[u].role # "admin"

\* C14: a Book call for a train id that is not in the Train table ends at once
\* with 404: no call under way and no Booking refers to a train that does not
\* exist, and the step that answers 404 "Train not found" changes no table and
\* starts no call, whatever number of seats was asked for.
C14_UnknownTrainIsRefused ==
    [][/\ \A p \in Procs : pc'[p] # "idle" => loc'[p].train_id \in 1..Len(trains')
       /\ \A i \in 1..Len(bookings') : bookings'[i].train_id \in 1..Len(trains')
       /\ (last' = Resp("book_seat", 404, "Train not found", 0) /\ last' # last)
             => UNCHANGED <<users, trains, bookings, pc, loc>>]_vars

\* a Book for a train that does not exist was refused while another train exists
C14_Witness ==
    /\ last = Resp("book_seat", 404, "Train not found", 0)
    /\ Len(trains) = 1
    /\ Len(users) >= 1

\* C15: right after a Book of n seats on train t by user u has returned booking
\* id b, GetBooking(b, u) answers 200 with seats_booked n and the name, source and
\* destination of train t; and no step changes what GetBooking answers to the
\* owner of a Booking that exists, so every later call answers the same.
C15_BookThenGetBooking ==
    [][/\ \A p \in Procs, b \in BookingIdInputs, u \in UserIdInputs :
             ( /\ pc[p] = "commit"
               /\ Finishes(p)
               /\ last'.status = 201
               /\ b = last'.body
               /\ u = loc[p].user_id )
             => get_booking(b, u)' =
                   Resp("get_booking", 200, "",
                        [booking_id |-> b,
                         train_name |-> trains[loc[p].train_id].name,
                         seats_booked |-> loc[p].seats,
                         source |-> trains[loc[p].train_id].source,
                         destination |-> trains[loc[p].train_id].destination])
       /\ \A b \in BookingIdInputs, u \in UserIdInputs :
             (b <= Len(bookings) /\ bookings[b].user_id = u)
             => /\ get_booking(b, u).status = 200
                /\ get_booking(b, u)' = get_booking(b, u)]_vars

\* the first Booking, on the second train, read by its owner after a later Booking
C15_Witness ==
    /\ Len(bookings) = 2
    /\ last.op = "get_booking"
    /\ last.status = 200
    /\ last.body.booking_id = 1
    /\ bookings[1].train_id = 2

\* no two User rows hold the same email
UniqueEmails ==
    \A i \in 1..Len(users), j \in 1..Len(users) :
        users[i].email = users[j].email => i = j

\* C16: no two Users share an email, also when registrations overlap; a
\* registration goes past its lookup only with a valid email that is not
\* registered then, and the step that answers 400 creates no User.
C16_EmailsStayUnique ==
    [][/\ UniqueEmails'
       /\ \A p \in Procs :
             (reg[p] = NoReg /\ reg'[p] # NoReg)
             => /\ is_valid_email(reg'[p].email)
                /\ \A i \in 1..Len(users) : users[i].email # reg'[p].email
       /\ (last'.op = "register" /\ last'.status = 400 /\ last' # last)
             => users' = users]_vars

\* a registration past its lookup whose email another one has registered meanwhile
C16_Witness ==
    \E p \in Procs :
        /\ reg[p] # NoReg
        /\ \E i \in 1..Len(users) : users[i].email = reg[p].email

\* C17: with positive seat counts and one Book call at a time, a train's stored
\* total_seats plus the seats of its Bookings is the total_seats it was created
\* with, in every reachable state.
C17_Conservation ==
    \A t \in TrainIds : trains[t].total_seats + SumBooked(t) = created[t]

\* a Book call has just taken one seat of a train
C17_Witness ==
    /\ last.op = "book_seat" /\ last.status = 201
    /\ \E t \in TrainIds : SumBooked(t) = 1 /\ trains[t].total_seats = created[t] - 1

\* some account holds the admin role
HasAdmin(us) == \E i \in 1..Len(us) : us[i].role = "admin"

\* C18: roles are granted only by a privileged party: while no account is an
\* admin's, no request makes one (so a caller who starts without an account and
\* without an admin's help never holds the admin role), and no Train is created.
C18_NoSelfMadeAdmin ==
    [][~HasAdmin(users) => (~HasAdmin(users') /\ trains' = trains)]_vars

=============================================================================
